---- MODULE Spec2Model ----
(***************************************************************************)
(* A model of the Chord node of src/src/chord/node.rs: the routing state   *)
(* of NodeServer, its local operations (join, stabilize, fix_fingers,      *)
(* find_successor, find_predecessor, closest_preceding_finger, notify) and *)
(* the RPC handlers of impl NodeService for NodeServer.                    *)
(*                                                                         *)
(* A Node is modelled by its id (addr is a function of the id).  An        *)
(* Option<Node> is the id or None.  The identifier width (64 bits in the   *)
(* source, where NUM_BITS = size_of::<Digest>() * 8) is scaled to Width.   *)
(*                                                                         *)
(* Every RPC handler takes `self` by value (node.rs 188-243) and           *)
(* NodeServer owns its fields (node.rs 35-43), so a handler runs on a copy *)
(* of the node's state: what it assigns to the copy is gone when the       *)
(* handler returns.  The local operations take `&mut self` and change the  *)
(* node's state.                                                           *)
(***************************************************************************)
EXTENDS Integers, Sequences, FiniteSets, TLC

\* Identifier width in bits (the source's Digest is u64).
Width == 3
\* Most iterations of the find_predecessor loop that are followed.
MaxHops == 3
\* The largest identifier a client looks up.
MaxKey == 4

NUM_BITS == Width

\* The hosts that can be started, the ids of the test figure_3b.rs.
Hosts == {0, 1, 3}
\* A node that is never started: the n_fake of scenario S6.
Fake == 5
Cands == Hosts \cup {Fake}
Digest == 0 .. (2 ^ Width - 1)
\* The identifiers looked up: the hosts' ids, one between two of them and
\* one past the last.
Keys == 0 .. MaxKey

\* Option::None, and the outcomes of an operation that returns no node.
None == -1
Panic == -2
Diverge == -3
Unit == -4

VARIABLES
    ns,        \* ns[n]: the NodeServer value of host n
    started,   \* the hosts whose listener is serving
    via,       \* via[n]: the introducer n was started with, or None
    panicked,  \* the hosts whose own task has panicked in a local operation
    last,      \* the operation that ran last: its inputs, result and traffic
    srv        \* the ServerManager of a started node and the tasks it joins

vars == <<ns, started, via, panicked, last, srv>>

----------------------------------------------------------------------------
\* Helpers

Max(S) == CHOOSE x \in S : \A y \in S : y <= x

Ev(from, to, rpc, arg) == [from |-> from, to |-> to, rpc |-> rpc, arg |-> arg]

Ret(st, res, net) == [st |-> st, res |-> res, net |-> net]

Failed(r) == r.res \in {Panic, Diverge}

----------------------------------------------------------------------------
\* NodeServer

new(node) ==
    [ node           |-> node,
      successor      |-> node,
      predecessor    |-> node,
      finger_table   |-> [i \in 0 .. NUM_BITS - 1 |-> node],
      connection_map |-> {} ]

\* The modulus is NUM_BITS, as written.  The addition is taken at the width
\* of Digest; no host id of the model reaches the width's end.
finger_table_start(s, k) ==
    ((s.node + 2 ^ k) % (2 ^ Width)) % NUM_BITS

\* get_connection without the test for the node's own id.
get_connection_any(s, id) ==
    Ret([s EXCEPT !.connection_map = @ \cup {id}], id,
        IF id \in s.connection_map
        THEN <<>>
        ELSE <<Ev(s.node, id, "connect", None)>>)

get_connection(s, id) ==
    IF id = s.node
    THEN Ret(s, Panic, <<>>)
    ELSE Ret([s EXCEPT !.connection_map = @ \cup {id}], id,
             IF id \in s.connection_map
             THEN <<>>
             ELSE <<Ev(s.node, id, "connect", None)>>)

closest_preceding_finger(s, id) ==
    LET Q == { i \in 0 .. NUM_BITS - 1 :
                 /\ s.finger_table[i] # None
                 /\ s.finger_table[i] > id
                 /\ s.finger_table[i] < s.node }
    IN  IF Q = {} THEN s.node ELSE s.finger_table[Max(Q)]

notify(s, node) ==
    LET v == s.predecessor
        new_pred == IF v # None
                    THEN IF node > v /\ node < s.node THEN node ELSE v
                    ELSE node
    IN  [s EXCEPT !.predecessor = new_pred]

\* The while loop of find_predecessor.  A remote call reads the callee's
\* state ns[n]; a callee that is not serving makes the caller's unwrap panic.
RECURSIVE find_predecessor_loop(_, _, _, _, _, _)
find_predecessor_loop(s, id, n, succ, net, fuel) ==
    IF ~(id > n /\ id < succ)
    THEN Ret(s, n, net)
    ELSE IF fuel = 0
    THEN Ret(s, Diverge, net)
    ELSE LET c1 == get_connection(s, n) IN
         IF c1.res = Panic \/ n \notin started
         THEN Ret(c1.st, Panic, net \o c1.net)
         ELSE LET n2   == closest_preceding_finger(ns[n], id)
                  net1 == net \o c1.net
                            \o <<Ev(s.node, n, "closest_preceding_finger_rpc", id)>>
                  c2   == get_connection(c1.st, n2)
              IN  IF c2.res = Panic \/ n2 \notin started
                  THEN Ret(c2.st, Panic, net1 \o c2.net)
                  ELSE LET net2 == net1 \o c2.net
                                     \o <<Ev(s.node, n2, "get_successor_rpc", None)>>
                       IN  IF ns[n2].successor = None
                           THEN Ret(c2.st, Panic, net2)
                           ELSE find_predecessor_loop(c2.st, id, n2,
                                    ns[n2].successor, net2, fuel - 1)

find_predecessor(s, id) ==
    IF s.successor = None
    THEN Ret(s, Panic, <<>>)
    ELSE find_predecessor_loop(s, id, s.node, s.successor, <<>>, MaxHops)

find_successor(s, id) ==
    LET p == find_predecessor(s, id) IN
    IF Failed(p)
    THEN p
    ELSE IF p.res = s.node
    THEN Ret(p.st, IF p.st.successor = None THEN Panic ELSE p.st.successor, p.net)
    ELSE LET c    == get_connection(p.st, p.res)
             net1 == p.net \o c.net
         IN  IF p.res \notin started
             THEN Ret(c.st, Panic, net1)
             ELSE Ret(c.st,
                      IF ns[p.res].successor = None
                      THEN Panic ELSE ns[p.res].successor,
                      net1 \o <<Ev(s.node, p.res, "get_successor_rpc", None)>>)

\* join asks the introducer for find_successor of node.id, the introducer's id.
join(s, node) ==
    LET s1 == [s EXCEPT !.predecessor = None]
        c  == get_connection(s1, node)
    IN  IF c.res = Panic \/ node \notin started
        THEN Ret(c.st, Panic, c.net)
        ELSE LET h    == find_successor(ns[node], node)
                 net1 == c.net \o <<Ev(s.node, node, "find_successor_rpc", node)>>
                              \o h.net
             IN  IF Failed(h)
                 THEN Ret(c.st, h.res, net1)
                 ELSE Ret([c.st EXCEPT !.successor = h.res], h.res, net1)

\* stabilize without the test that skips a successor equal to self.
stabilize_no_skip(s) ==
    IF s.successor = None
    THEN Ret(s, Unit, <<>>)
    ELSE LET successor == s.successor
             c == get_connection(s, successor)
         IN  IF c.res = Panic \/ successor \notin started
             THEN Ret(c.st, Panic, c.net)
             ELSE LET x    == ns[successor].predecessor
                      net1 == c.net
                                \o <<Ev(s.node, successor, "get_predecessor_rpc", None)>>
                  IN  IF x = None
                      THEN Ret(c.st, Unit, net1)
                      ELSE Ret(IF x > s.node /\ x < successor
                               THEN [c.st EXCEPT !.successor = x]
                               ELSE c.st,
                               Unit,
                               net1 \o <<Ev(s.node, successor, "notify_rpc", s.node)>>)

\* stabilize whose adoption test admits x.id == self.id.
stabilize_adopts_self(s) ==
    IF s.successor = None \/ s.successor = s.node
    THEN Ret(s, Unit, <<>>)
    ELSE LET successor == s.successor
             c == get_connection(s, successor)
         IN  IF successor \notin started
             THEN Ret(c.st, Panic, c.net)
             ELSE LET x    == ns[successor].predecessor
                      net1 == c.net
                                \o <<Ev(s.node, successor, "get_predecessor_rpc", None)>>
                  IN  IF x = None
                      THEN Ret(c.st, Unit, net1)
                      ELSE Ret(IF x >= s.node /\ x < successor
                               THEN [c.st EXCEPT !.successor = x]
                               ELSE c.st,
                               Unit,
                               net1 \o <<Ev(s.node, successor, "notify_rpc", s.node)>>)

\* stabilize: notify_rpc is sent to the successor read at entry, before the
\* adoption test; the callee's notify runs on the handler's copy.
stabilize(s) ==
    IF s.successor = None \/ s.successor = s.node
    THEN Ret(s, Unit, <<>>)
    ELSE LET successor == s.successor
             c == get_connection(s, successor)
         IN  IF successor \notin started
             THEN Ret(c.st, Panic, c.net)
             ELSE LET x    == ns[successor].predecessor
                      net1 == c.net
                                \o <<Ev(s.node, successor, "get_predecessor_rpc", None)>>
                  IN  IF x = None
                      THEN Ret(c.st, Unit, net1)
                      ELSE Ret(IF x > s.node /\ x < successor
                               THEN [c.st EXCEPT !.successor = x]
                               ELSE c.st,
                               Unit,
                               net1 \o <<Ev(s.node, successor, "notify_rpc", s.node)>>)

fix_fingers(s, i) ==
    LET f == find_successor(s, finger_table_start(s, i)) IN
    IF Failed(f)
    THEN f
    ELSE Ret([f.st EXCEPT !.finger_table[i] = f.res], Unit, f.net)

----------------------------------------------------------------------------
\* ServerManager (server.rs)

\* The tasks behind ServerManager.handle: the listener and the two drivers.
Tasks == {"listener", "stabilize", "fix_fingers"}

Ended == {"done", "panicked"}

\* A task owns its receiver of the watch channel until the task ends.
receivers(handle) == { t \in Tasks : handle[t] \notin Ended }

\* JoinAll that is ready as soon as one of the handles is.
joined_any(handle) == \E t \in Tasks : handle[t] \in Ended

\* self.handle.await: JoinAll is ready when every JoinHandle is.
joined(handle) == \A t \in Tasks : handle[t] \in Ended

\* wait collects the JoinErrors: a task that panicked makes it return Err.
wait_result(handle) ==
    IF \E t \in Tasks : handle[t] = "panicked" THEN "err" ELSE "ok"

\* A ServerManager whose tasks have been spawned; neither wait nor stop
\* has been called.
spawned ==
    [ handle |-> [t \in Tasks |-> "idle"],
      tx     |-> FALSE,
      sent   |-> 0,
      call   |-> "none",
      pc     |-> "idle" ]

----------------------------------------------------------------------------
\* The state machine

Op(op, n, arg, r) ==
    [op |-> op, n |-> n, arg |-> arg, res |-> r.res, net |-> r.net, copy |-> r.st]

Init ==
    /\ ns = [n \in Hosts |-> new(n)]
    /\ started = {}
    /\ via = [n \in Hosts |-> None]
    /\ panicked = {}
    /\ last = Op("new", None, None, Ret(new(0), Unit, <<>>))
    /\ srv = spawned

\* A local operation of host n has run with outcome r.
Local(op, n, arg, r) ==
    /\ ns' = [ns EXCEPT ![n] = r.st]
    /\ panicked' = IF Failed(r) THEN panicked \cup {n} ELSE panicked
    /\ last' = Op(op, n, arg, r)
    /\ UNCHANGED srv

\* An RPC handler of host n has run on its copy, with outcome r.
Handled(op, n, arg, r) ==
    /\ last' = Op(op, n, arg, r)
    /\ UNCHANGED <<ns, started, via, panicked, srv>>

\* start(introducer): join through the introducer, if any, and serve.
Start(n, introducer) ==
    /\ n \in Hosts \ started
    /\ introducer \in started \cup {None}
    /\ Local("start", n, introducer,
             IF introducer = None
             THEN Ret(ns[n], Unit, <<>>)
             ELSE join(ns[n], introducer))
    /\ started' = started \cup {n}
    /\ via' = [via EXCEPT ![n] = introducer]

Stabilize(n) ==
    /\ n \in started \ panicked
    /\ Local("stabilize", n, None, stabilize(ns[n]))
    /\ UNCHANGED <<started, via>>

FixFingers(n, i) ==
    /\ n \in started \ panicked
    /\ Local("fix_fingers", n, i, fix_fingers(ns[n], i))
    /\ UNCHANGED <<started, via>>

FingerTableStart(n, k) ==
    /\ n \in started
    /\ Handled("finger_table_start", n, k,
               Ret(ns[n], finger_table_start(ns[n], k), <<>>))

GetNodeRpc(n) ==
    /\ n \in started
    /\ Handled("get_node_rpc", n, None, Ret(ns[n], ns[n].node, <<>>))

GetPredecessorRpc(n) ==
    /\ n \in started
    /\ Handled("get_predecessor_rpc", n, None, Ret(ns[n], ns[n].predecessor, <<>>))

GetSuccessorRpc(n) ==
    /\ n \in started
    /\ Handled("get_successor_rpc", n, None, Ret(ns[n], ns[n].successor, <<>>))

FindSuccessorRpc(n, id) ==
    /\ n \in started
    /\ Handled("find_successor_rpc", n, id, find_successor(ns[n], id))

FindPredecessorRpc(n, id) ==
    /\ n \in started
    /\ Handled("find_predecessor_rpc", n, id, find_predecessor(ns[n], id))

ClosestPrecedingFingerRpc(n, id) ==
    /\ n \in started
    /\ Handled("closest_preceding_finger_rpc", n, id,
               Ret(ns[n], closest_preceding_finger(ns[n], id), <<>>))

NotifyRpc(n, node) ==
    /\ n \in started
    /\ Handled("notify_rpc", n, node, Ret(notify(ns[n], node), Unit, <<>>))

StabilizeRpc(n) ==
    /\ n \in started
    /\ Handled("stabilize_rpc", n, None, stabilize(ns[n]))

Next ==
    \/ \E n \in Hosts, i \in Hosts \cup {None} : Start(n, i)
    \/ \E n \in Hosts : Stabilize(n)
    \/ \E n \in Hosts, i \in 1 .. NUM_BITS - 1 : FixFingers(n, i)
    \/ \E n \in Hosts, k \in 0 .. NUM_BITS - 1 : FingerTableStart(n, k)
    \/ \E n \in Hosts : GetNodeRpc(n)
    \/ \E n \in Hosts : GetPredecessorRpc(n)
    \/ \E n \in Hosts : GetSuccessorRpc(n)
    \/ \E n \in Hosts, id \in Keys : FindSuccessorRpc(n, id)
    \/ \E n \in Hosts, id \in Keys : FindPredecessorRpc(n, id)
    \/ \E n \in Hosts, id \in Keys : ClosestPrecedingFingerRpc(n, id)
    \/ \E n \in Hosts, node \in Cands : NotifyRpc(n, node)
    \/ \E n \in Hosts : StabilizeRpc(n)

Spec == Init /\ [][Next]_vars

----------------------------------------------------------------------------
\* The ring, as the claims speak of it

Min(S) == CHOOSE x \in S : \A y \in S : x <= y

\* The first node of R clockwise at or after identifier k.
Owner(k, R) ==
    IF \E n \in R : n >= k
    THEN Min({n \in R : n >= k})
    ELSE Min(R)

SuccIn(R, n) == Owner((n + 1) % (2 ^ Width), R)

PredIn(R, n) == CHOOSE p \in R : SuccIn(R, p) = n

\* x lies strictly between a and b going clockwise; empty when a = b.
InOpen(x, a, b) ==
    IF a < b THEN a < x /\ x < b
    ELSE IF a > b THEN x > a \/ x < b
    ELSE FALSE

\* x lies in the clockwise interval (a, b]; the whole circle when a = b.
InHalfOpen(x, a, b) == a = b \/ x = b \/ InOpen(x, a, b)

\* The nodes that following successor pointers from n visits.
RECURSIVE Reach(_, _)
Reach(n, seen) ==
    IF n \in seen \/ n \notin Hosts
    THEN seen
    ELSE Reach(ns[n].successor, seen \cup {n})

RingOf(n) == Reach(n, {})

\* Every started node's successor and predecessor are its ring neighbours.
Converged ==
    /\ started # {}
    /\ \A n \in started :
         /\ ns[n].successor = SuccIn(started, n)
         /\ ns[n].predecessor = PredIn(started, n)

FingersCorrect ==
    \A n \in started, i \in 0 .. NUM_BITS - 1 :
        ns[n].finger_table[i] = Owner((n + 2 ^ i) % (2 ^ Width), started)

Routing(s) == <<s.successor, s.predecessor, s.finger_table>>

\* A ring of the hosts R whose successors and predecessors have converged,
\* with the finger tables and connection caches of the constructor.
InitRing ==
    /\ \E R \in SUBSET Hosts :
         /\ R # {}
         /\ started = R
         /\ ns = [n \in Hosts |->
                    IF n \in R
                    THEN [new(n) EXCEPT !.successor = SuccIn(R, n),
                                        !.predecessor = PredIn(R, n)]
                    ELSE new(n)]
    /\ via = [n \in Hosts |-> None]
    /\ panicked = {}
    /\ last = Op("new", None, None, Ret(new(0), Unit, <<>>))
    /\ srv = spawned

\* No churn: no node is started while the ring runs.  The ring is
\* maintained (stabilize, notify, fix_fingers) and looked up.
NextRing ==
    \/ \E n \in Hosts : Stabilize(n)
    \/ \E n \in Hosts, i \in 1 .. NUM_BITS - 1 : FixFingers(n, i)
    \/ \E n \in Hosts, id \in Keys : FindSuccessorRpc(n, id)
    \/ \E n \in Hosts, node \in Cands : NotifyRpc(n, node)
    \/ \E n \in Hosts : StabilizeRpc(n)

SpecRing == InitRing /\ [][NextRing]_vars

\* The drivers tick stabilize and fix_fingers periodically on every node.
FairSpec ==
    /\ Spec
    /\ \A n \in Hosts : WF_vars(Stabilize(n))

\* A converged ring on which only the fix_fingers driver runs.
NextFix ==
    \E n \in Hosts, i \in 1 .. NUM_BITS - 1 : FixFingers(n, i)

FairFingers ==
    /\ InitRing
    /\ [][NextFix]_vars
    /\ \A n \in Hosts, i \in 1 .. NUM_BITS - 1 : WF_vars(FixFingers(n, i))

\* start through an introducer that is not serving: the connection attempt
\* of join, or the RPC sent over it, fails.
StartVia(n, introducer) ==
    /\ n \in Hosts \ started
    /\ introducer \in Cands \ (started \cup {n})
    /\ Local("start", n, introducer, join(ns[n], introducer))
    /\ started' = started \cup {n}
    /\ via' = [via EXCEPT ![n] = introducer]

\* The process of host n ends: its listener is gone and its state with it.
Kill(n) ==
    /\ n \in started
    /\ started' = started \ {n}
    /\ ns' = [ns EXCEPT ![n] = new(n)]
    /\ via' = [via EXCEPT ![n] = None]
    /\ panicked' = panicked \ {n}
    /\ last' = Op("kill", n, None, Ret(new(n), Unit, <<>>))
    /\ UNCHANGED srv

\* The ring with peers that become unreachable.
NextFault ==
    \/ \E n \in Hosts, i \in Hosts \cup {None} : Start(n, i)
    \/ \E n \in Hosts, i \in Cands : StartVia(n, i)
    \/ \E n \in Hosts : Kill(n)
    \/ \E n \in Hosts : Stabilize(n)
    \/ \E n \in Hosts, i \in 1 .. NUM_BITS - 1 : FixFingers(n, i)

SpecFault == Init /\ [][NextFault]_vars

\* The tasks of a node and its ServerManager.
nodeVars == <<ns, started, via, panicked, last>>

\* A task starts a unit of work: a driver's tick, a request of the listener.
Tick(t) ==
    /\ srv.handle[t] = "idle"
    /\ srv' = [srv EXCEPT !.handle[t] = "ticking"]
    /\ UNCHANGED nodeVars

TickEnd(t) ==
    /\ srv.handle[t] = "ticking"
    /\ srv' = [srv EXCEPT !.handle[t] = "idle"]
    /\ UNCHANGED nodeVars

\* The work panics, as the unwraps of stabilize and find_successor do.
TickPanic(t) ==
    /\ srv.handle[t] = "ticking"
    /\ srv' = [srv EXCEPT !.handle[t] = "panicked"]
    /\ UNCHANGED nodeVars

\* Between two units of work a task sees the stop signal and returns.
Observe(t) ==
    /\ srv.handle[t] = "idle"
    /\ srv.tx
    /\ srv' = [srv EXCEPT !.handle[t] = "done"]
    /\ UNCHANGED nodeVars

\* wait(self): await the handles.
Wait ==
    /\ srv.pc = "idle"
    /\ srv' = [srv EXCEPT !.call = "wait", !.pc = "waiting"]
    /\ UNCHANGED nodeVars

\* stop(self): `self.tx.send(true)?`, which is an error when no receiver is
\* left, then wait.
Stop ==
    /\ srv.pc = "idle"
    /\ srv' = IF receivers(srv.handle) = {}
              THEN [srv EXCEPT !.call = "stop", !.pc = "err"]
              ELSE [srv EXCEPT !.call = "stop", !.pc = "waiting",
                               !.tx = TRUE, !.sent = @ + 1]
    /\ UNCHANGED nodeVars

\* The JoinAll of wait is ready: wait, and the stop that called it, return.
WaitReturn ==
    /\ srv.pc = "waiting"
    /\ joined(srv.handle)
    /\ srv' = [srv EXCEPT !.pc = wait_result(srv.handle)]
    /\ UNCHANGED nodeVars

NextStop ==
    \/ \E t \in Tasks : Tick(t)
    \/ \E t \in Tasks : TickEnd(t)
    \/ \E t \in Tasks : TickPanic(t)
    \/ \E t \in Tasks : Observe(t)
    \/ Wait
    \/ Stop
    \/ WaitReturn

\* Every task is scheduled; a task that is between two units of work again
\* and again sees the signal.
FairStop ==
    /\ Init
    /\ [][NextStop]_vars
    /\ \A t \in Tasks : WF_vars(TickEnd(t) \/ TickPanic(t))
    /\ \A t \in Tasks : SF_vars(Observe(t))
    /\ WF_vars(WaitReturn)

\* A converged ring on which only lookups run.
NextLookup ==
    \/ \E n \in Hosts, id \in Keys : FindPredecessorRpc(n, id)
    \/ \E n \in Hosts, id \in Keys : FindSuccessorRpc(n, id)
    \/ \E n \in Hosts, id \in Keys : ClosestPrecedingFingerRpc(n, id)

SpecLookup == InitRing /\ [][NextLookup]_vars

\* Every host is serving and the successor and predecessor fields hold any
\* node: what get_predecessor_rpc replies to stabilize is the peer's to say.
InitStab ==
    /\ started = Hosts
    /\ \E succ \in [Hosts -> Hosts], pred \in [Hosts -> Hosts \cup {None}] :
         ns = [n \in Hosts |->
                 [new(n) EXCEPT !.successor = succ[n], !.predecessor = pred[n]]]
    /\ via = [n \in Hosts |-> None]
    /\ panicked = {}
    /\ last = Op("new", None, None, Ret(new(0), Unit, <<>>))
    /\ srv = spawned

NextStab ==
    \/ \E n \in Hosts : Stabilize(n)
    \/ \E n \in Hosts : StabilizeRpc(n)

SpecStab == InitStab /\ [][NextStab]_vars

----------------------------------------------------------------------------
\* The claims

StabilizeOps == {"stabilize", "stabilize_rpc"}

\* A node started with no introducer.
Solo(n) == n \in started /\ via[n] = None

\* C1 (first half): a node constructed and started with no introducer has
\* itself as successor and as predecessor.
C1_SoloPointers ==
    \A n \in Hosts : Solo(n) => ns[n].successor = n /\ ns[n].predecessor = n

\* C1 (second half): stabilize on such a node, run locally or through
\* stabilize_rpc, returns normally, sends no RPC, opens no connection and
\* leaves successor, predecessor, finger table and connection cache as they were.
C1_SoloStabilizeStep ==
    (last'.op \in StabilizeOps /\ Solo(last'.n))
        => /\ ns' = ns
           /\ last'.copy = ns[last'.n]
           /\ last'.net = <<>>
           /\ last'.res = Unit
           /\ panicked' = panicked

\* C1: the solo ring: successor == self and predecessor == self after start
\* with no introducer, and every stabilize on it leaves the node's state
\* unchanged and sends no RPC.
C1_SoloRing == [] C1_SoloPointers /\ [][C1_SoloStabilizeStep]_vars

C1_Witness ==
    /\ last.op \in StabilizeOps
    /\ Solo(last.n)
    /\ last.res = Unit
    /\ ns[last.n] = new(last.n)

\* The last operation was a start through an introducer whose join returned.
Joined == last.op = "start" /\ last.arg # None /\ ~Failed(last)

\* C2: when join returns, the joining node's successor is what
\* find_successor(self.id) evaluated on the introducer returns, which is the
\* first node of the introducer's ring clockwise at or after the joining id.
C2_JoinSuccessor ==
    Joined =>
        /\ ns[last.n].successor = find_successor(ns[last.arg], last.n).res
        /\ ns[last.n].successor = Owner(last.n, RingOf(last.arg))

\* A stabilize on n1 followed by a stabilize on n0, in the ring of solo n0
\* and n1 joined through n0, ends in the two-node ring.
C3_TwoNodeStep ==
    ( /\ started = {0, 1}
      /\ via[0] = None
      /\ via[1] = 0
      /\ last.op \in StabilizeOps /\ last.n = 1
      /\ last'.op \in StabilizeOps /\ last'.n = 0 )
        => /\ ns'[0].predecessor = 1
           /\ ns'[0].successor = 1
           /\ ns'[1].predecessor = 0
           /\ ns'[1].successor = 0

\* C3: from solo n0 and n1 joined through n0, one stabilize on n1 followed
\* by one stabilize on n0 ends with n0.predecessor = 1, n0.successor = 1,
\* n1.predecessor = 0 and n1.successor = 0, as the get_predecessor and
\* get_successor RPCs return them.
C3_TwoNodeConvergence == [][C3_TwoNodeStep]_vars

\* The scenario S3: n0 alone, n1 through n0, n3 through n1.
S3Joined ==
    /\ started = {0, 1, 3}
    /\ via[0] = None
    /\ via[1] = 0
    /\ via[3] = 1

\* C4: once 0, 1 and 3 have joined, fair stabilize ticks reach, and stay in,
\* a state where the successors form the cycle 0 -> 1 -> 3 -> 0 and every
\* node is the predecessor of its successor.
C4_RingConvergence == S3Joined ~> [] Converged

\* C5: on a converged ring find_successor(k), whichever node initiates it,
\* returns the first node clockwise at or after k.
C5_LookupOwner ==
    (Converged /\ last.op = "find_successor_rpc")
        => last.res = Owner(last.arg, started)

\* C6: closest_preceding_finger(target) returns the node itself or the
\* highest-index finger that lies in the clockwise open interval
\* (self.id, target).
C6_ClosestPrecedingFinger ==
    last.op = "closest_preceding_finger_rpc" =>
        LET s == ns[last.n]
            Q == { i \in 0 .. NUM_BITS - 1 :
                     /\ s.finger_table[i] # None
                     /\ InOpen(s.finger_table[i], s.node, last.arg) }
        IN  \/ last.res = s.node
            \/ Q # {} /\ last.res = s.finger_table[Max(Q)]

\* What a notify delivered to a node does to the node's state.
C7_NotifyStep ==
    last'.op = "notify_rpc" =>
        LET n == last'.n
            p == ns[n].predecessor
        IN  /\ ns'[n].predecessor =
                 IF p = None \/ InOpen(last'.arg, p, n) THEN last'.arg ELSE p
            /\ ns'[n].successor = ns[n].successor
            /\ ns'[n].finger_table = ns[n].finger_table

\* C7: notify(candidate) makes candidate the node's predecessor if the
\* predecessor is unset or candidate lies in the clockwise open interval
\* (predecessor.id, self.id), leaves the predecessor unchanged otherwise, and
\* never changes successor or finger table.
C7_NotifyRule == [][C7_NotifyStep]_vars

\* A stabilize, or a notify from the true predecessor, on a converged ring
\* changes no routing state, neither the node's nor the copy it ran on.
C8_IdempotentStep ==
    ( /\ \/ last'.op \in StabilizeOps
         \/ last'.op = "notify_rpc" /\ last'.arg = ns[last'.n].predecessor
      /\ Converged )
        => /\ \A n \in Hosts : Routing(ns'[n]) = Routing(ns[n])
           /\ Routing(last'.copy) = Routing(ns[last'.n])
           /\ last'.res = Unit

\* C8: on a converged ring a stabilize on any node, and a notify delivered to
\* a node from its true predecessor, leave successor, predecessor and finger
\* table of every node unchanged; the ring is converged afterwards, so the
\* same holds however often the operation is repeated.
C8_Idempotent == [][C8_IdempotentStep]_vars

\* A stabilize that contacted its successor has run on a converged ring of
\* two nodes or more.
C8_Witness ==
    /\ Converged
    /\ Cardinality(started) >= 2
    /\ last.op \in StabilizeOps
    /\ Len(last.net) >= 2

\* C9: on a converged ring with no churn, fair repetition of fix_fingers
\* makes every finger_table[i] of every node, i = 0 included, the first node
\* clockwise at or after (n.id + 2^i) mod 2^m.
C9_FingerConvergence == Converged ~> FingersCorrect

\* C10: finger_start(id, k) = (id + 2^k) mod 2^m.
C10_FingerStart ==
    last.op = "finger_table_start"
        => last.res = (last.n + 2 ^ last.arg) % (2 ^ Width)

\* C11: no node's connection cache, and no copy of it an RPC handler ran on,
\* holds an entry keyed by the node's own id.
C11_NoSelfConnection ==
    /\ \A n \in Hosts : n \notin ns[n].connection_map
    /\ last.copy.node \notin last.copy.connection_map

\* A node that holds a connection has asked for a connection to itself.
C11_Witness ==
    /\ last.op \in {"fix_fingers", "find_successor_rpc", "find_predecessor_rpc"}
    /\ last.res = Panic
    /\ last.net = <<>>
    /\ ns[last.n].successor \notin {None, last.n}
    /\ ns[last.n].connection_map # {}

\* The connections an operation opened, as (node, remote id) pairs.
Opened(o) ==
    { <<o.net[j].from, o.net[j].to>> :
        j \in { k \in 1 .. Len(o.net) : o.net[k].rpc = "connect" } }

\* An operation opens no connection that the operation before it opened.
C12_ReuseStep == Opened(last) \cap Opened(last') = {}

\* C12: once a node has a client handle for a remote id, later requests for
\* it on that node, in a local operation or in an RPC handler, open no new
\* connection: a (node, remote id) pair is connected at most once.
C12_ConnectionReuse == [][C12_ReuseStep]_vars

\* A join whose introducer is unreachable leaves the node as it was before
\* the attempt and does not panic.
C13_JoinFailureStep ==
    (last'.op = "start" /\ last'.arg \notin started \cup {None})
        => LET n == last'.n IN
           /\ ~Failed(last')
           /\ panicked' = panicked
           /\ ns'[n].successor = n
           /\ ns'[n].predecessor = ns[n].predecessor
           /\ ns'[n].finger_table = [i \in 0 .. NUM_BITS - 1 |-> n]
           /\ last'.arg \notin ns'[n].connection_map

\* C13: when the connection to the introducer or the remote find_successor
\* fails during join, join returns an error without panicking and the node
\* stays solo: successor self, predecessor as before the attempt, finger
\* table all self, and no cache entry for the introducer.
C13_JoinFailure == [][C13_JoinFailureStep]_vars

\* The operations the periodic drivers and the lookups run.
MaintenanceOps == {"stabilize", "fix_fingers", "find_successor_rpc"}

\* A maintenance operation is about to contact a peer that is unreachable:
\* stabilize asks its successor first.
PeerFails(op, n) ==
    /\ op = "stabilize"
    /\ ns[n].successor \notin started \cup {None, n}

\* A maintenance operation that meets an unreachable peer ends without a
\* panic and leaves the node's routing state as it was.
C14_MaintenanceStep ==
    (last'.op \in MaintenanceOps /\ PeerFails(last'.op, last'.n))
        => /\ ~Failed(last')
           /\ last'.n \notin panicked'
           /\ Routing(ns'[last'.n]) = Routing(ns[last'.n])

\* C14: an RPC or connection failure during stabilize, fix_fingers or
\* find_successor is not fatal: the operation ends without panicking, the
\* node's successor, predecessor and finger table are unchanged, and the
\* node's next tick can run.
C14_MaintenanceFailure == [][C14_MaintenanceStep]_vars

Returned == srv.pc \in {"ok", "err"}

\* A stop sends one signal, and none only when every task had ended before
\* the call; the signal stays visible to every task that has not ended; and
\* when stop has returned no task is running.
C15_StopSafe ==
    srv.call = "stop" =>
        /\ \/ srv.sent = 1 /\ srv.tx
           \/ srv.sent = 0 /\ srv.pc = "err" /\ receivers(srv.handle) = {}
        /\ Returned => receivers(srv.handle) = {}

C16_FindPredecessor ==
    (Converged /\ last.op = "find_predecessor_rpc")
        => /\ last.res \in started
           /\ InHalfOpen(last.arg, last.res, ns[last.res].successor)

\* The RPC handlers that run a mutating operation.
MutatingRpcs ==
    {"notify_rpc", "stabilize_rpc", "find_successor_rpc", "find_predecessor_rpc"}

\* What a mutating RPC handler that returned left in the state it ran on is
\* the node's state afterwards, and a get_predecessor_rpc or get_successor_rpc
\* that follows on that node returns it.
C17_HandlerStep ==
    /\ (last'.op \in MutatingRpcs /\ ~Failed(last'))
           => ns'[last'.n] = last'.copy
    /\ ( /\ last.op \in MutatingRpcs /\ ~Failed(last)
         /\ last'.n = last.n
         /\ last'.op \in {"get_predecessor_rpc", "get_successor_rpc"} )
           => last'.res = IF last'.op = "get_predecessor_rpc"
                          THEN last.copy.predecessor
                          ELSE last.copy.successor

\* C17: every mutation an RPC handler makes (notify_rpc setting the
\* predecessor, stabilize_rpc setting the successor) is made to the node's
\* one shared state, so every later RPC on the node observes it.
C17_NoLostUpdate == [][C17_HandlerStep]_vars

\* C18: in the ring grown from solo nodes by joins through live introducers,
\* with stabilize, notify, fix_fingers and lookups and no transport failure,
\* no operation panics or fails to return: none asks for a connection to the
\* node itself and none finds an empty successor.
C18_NoPanic ==
    /\ ~Failed(last)
    /\ panicked = {}

\* A stabilize is about to run on a node whose successor is another node.
StabilizeRuns(op, n) ==
    /\ op \in StabilizeOps
    /\ ns[n].successor \notin {None, n}

\* The successor a stabilize of node n ends with, by the adoption rule.
C19_AdoptionStep ==
    (StabilizeRuns(last'.op, last'.n) /\ ~Failed(last'))
        => LET n == last'.n
               s == ns[n].successor
               x == ns[s].predecessor
           IN  last'.copy.successor =
                   IF x # None /\ InOpen(x, n, s) THEN x ELSE s

\* C19: stabilize on n with successor s # n and x = s.predecessor sets
\* n.successor to x if and only if x is set and x.id lies in the clockwise
\* open interval (n.id, s.id), which wraps through 0 when n.id > s.id;
\* otherwise n.successor is unchanged.
C19_StabilizeAdoption == [][C19_AdoptionStep]_vars

\* The notify_rpc events of an operation.
Notifies(o) ==
    { k \in 1 .. Len(o.net) : o.net[k].rpc = "notify_rpc" }

C20_NotifyStep ==
    (StabilizeRuns(last'.op, last'.n) /\ ~Failed(last'))
        => /\ Cardinality(Notifies(last')) = 1
           /\ \A k \in Notifies(last') :
                /\ last'.net[k].from = last'.n
                /\ last'.net[k].arg = last'.n
                /\ last'.net[k].to = last'.copy.successor

\* C20: a stabilize whose successor is not self and whose RPCs succeed sends
\* exactly one notify(self), to the node that is its successor when the run
\* ends (after the adoption decision), also when the fetched predecessor is
\* unset and when the successor did not change.
C20_StabilizeNotify == [][C20_NotifyStep]_vars

====
